---------------------------- MODULE Spec2Model ----------------------------
(***************************************************************************)
(* A model of the soldice-anchor program (place_bet / resolve_bet /        *)
(* refund_bet) and of the anchor-sysvar-instruction crate's parser of the  *)
(* ed25519 signature-verification instruction.                             *)
(*                                                                         *)
(* Integers wider than 31 bits (u64 lamports and slots, u128 seeds and     *)
(* payout intermediates) are kept as little-endian sequences of 16-bit     *)
(* limbs; every arithmetic step is carried out limb by limb at the width   *)
(* of the Rust type.  Byte buffers are sequences of 0..255.                *)
(***************************************************************************)
EXTENDS Integers, Sequences, FiniteSets, TLC

VARIABLES
    overflowChecks, \* build profile: TRUE = arithmetic overflow panics, FALSE = it wraps
    slot,           \* Clock::get()?.slot
    ticks,          \* number of clock advances so far (model bound)
    bets,           \* seed -> the Bet account at PDA("bet", vault, seed), or NoBet
    settled,        \* seed -> successful resolve/refund count since the account was last created
    last,           \* outcome of the last instruction processed
    pBet,           \* SpecPayout: the Bet handed to ResolveBet::resolve_bet
    pSig,           \* SpecPayout: the signature handed to resolve_bet
    pOut,           \* SpecPayout: what resolve_bet returned
    offs,           \* SpecCodec: an Ed25519InstructionOffsets value
    packed,         \* SpecCodec: the bytes pack() produced
    unpacked,       \* SpecCodec: what Ed25519InstructionOffsets::unpack returned
    data,           \* SpecParse / SpecVerify: instruction data of instruction 0
    parsed,         \* SpecParse: what Ed25519InstructionSignatures::unpack returned
    ix,             \* SpecVerify: program id and account count of instruction 0
    verified        \* SpecVerify: what verify_ed25519_signature returned

vars == <<overflowChecks, slot, ticks, bets, settled, last, pBet, pSig, pOut,
          offs, packed, unpacked, data, parsed, ix, verified>>

(***************************************************************************)
(* Bounds of the model.                                                    *)
(***************************************************************************)
MaxCount == 2       \* largest signature count byte of the generated buffers
MaxTicks == 2       \* clock advances in one behaviour

(***************************************************************************)
(* Program constants.                                                      *)
(***************************************************************************)
PUBKEY_SERIALIZED_SIZE == 32
SIGNATURE_SERIALIZED_SIZE == 64
SIGNATURE_OFFSETS_SERIALIZED_SIZE == 14
SIGNATURE_OFFSETS_START == 2
U16_MAX == 65535
MARKER_BYTES == <<255, 255>>

None == <<>>
Some(x) == <<x>>

(***************************************************************************)
(* u16 <-> little-endian bytes.                                            *)
(***************************************************************************)
U16ToLeBytes(v) == <<v % 256, v \div 256>>
U16FromLeBytes(b0, b1) == b0 + 256 * b1

(***************************************************************************)
(* Ed25519InstructionOffsets                                               *)
(***************************************************************************)
Ed25519InstructionOffsets_new(messageLen) ==
    [ signature_offset |-> 48,
      signature_instruction_index |-> 65535,
      public_key_offset |-> 16,
      public_key_instruction_index |-> 65535,
      message_data_offset |-> 112,
      message_data_size |-> messageLen % 65536,
      message_instruction_index |-> 65535 ]

\* pack(&self): the three instruction-index slots are filled with MARKER_BYTES,
\* whatever the struct's index fields hold.
Ed25519InstructionOffsets_pack(self) ==
    U16ToLeBytes(self.signature_offset) \o MARKER_BYTES
      \o U16ToLeBytes(self.public_key_offset) \o MARKER_BYTES
      \o U16ToLeBytes(self.message_data_offset)
      \o U16ToLeBytes(self.message_data_size) \o MARKER_BYTES

NoOffsets ==
    [ signature_offset |-> 0, signature_instruction_index |-> 0,
      public_key_offset |-> 0, public_key_instruction_index |-> 0,
      message_data_offset |-> 0, message_data_size |-> 0,
      message_instruction_index |-> 0 ]

\* A mutant of unpack: the two message fields read in the wrong order.
Ed25519InstructionOffsets_unpack_swapped(b) ==
    IF Len(b) # 14
    THEN [kind |-> "Err", err |-> "InvalidInstructionData", offsets |-> NoOffsets]
    ELSE [kind |-> "Ok", err |-> "",
          offsets |->
            [ signature_offset |-> U16FromLeBytes(b[1], b[2]),
              signature_instruction_index |-> U16FromLeBytes(b[3], b[4]),
              public_key_offset |-> U16FromLeBytes(b[5], b[6]),
              public_key_instruction_index |-> U16FromLeBytes(b[7], b[8]),
              message_data_offset |-> U16FromLeBytes(b[11], b[12]),
              message_data_size |-> U16FromLeBytes(b[9], b[10]),
              message_instruction_index |-> U16FromLeBytes(b[13], b[14]) ]]

Ed25519InstructionOffsets_unpack(b) ==
    IF Len(b) # 14
    THEN [kind |-> "Err", err |-> "InvalidInstructionData", offsets |-> NoOffsets]
    ELSE [kind |-> "Ok", err |-> "",
          offsets |->
            [ signature_offset |-> U16FromLeBytes(b[1], b[2]),
              signature_instruction_index |-> U16FromLeBytes(b[3], b[4]),
              public_key_offset |-> U16FromLeBytes(b[5], b[6]),
              public_key_instruction_index |-> U16FromLeBytes(b[7], b[8]),
              message_data_offset |-> U16FromLeBytes(b[9], b[10]),
              message_data_size |-> U16FromLeBytes(b[11], b[12]),
              message_instruction_index |-> U16FromLeBytes(b[13], b[14]) ]]

(***************************************************************************)
(* Ed25519InstructionSignatures::unpack                                    *)
(***************************************************************************)
\* data[start..end]: Rust's range index panics when start > end or end > len.
SliceRange(d, start, end) ==
    IF start <= end /\ end <= Len(d)
    THEN [ok |-> TRUE, bytes |-> SubSeq(d, start + 1, end)]
    ELSE [ok |-> FALSE, bytes |-> <<>>]

\* Pubkey::try_from(Vec<u8>): an error unless the vector holds 32 bytes.
PubkeyTryFrom(v) ==
    IF Len(v) = PUBKEY_SERIALIZED_SIZE
    THEN [ok |-> TRUE, key |-> v] ELSE [ok |-> FALSE, key |-> <<>>]

FieldPanic == [kind |-> "Panic", value |-> None, verifiable |-> FALSE]
FieldErr == [kind |-> "Err", value |-> None, verifiable |-> FALSE]

\* A mutant of the public-key arm: the non-sentinel branch forgets to clear
\* is_verifiable.
PublicKeyField_keepsFlag(d, o) ==
    IF o.public_key_instruction_index = U16_MAX
    THEN LET s == SliceRange(d, o.public_key_offset,
                             o.public_key_offset + PUBKEY_SERIALIZED_SIZE)
         IN  IF ~s.ok THEN FieldPanic
             ELSE IF PubkeyTryFrom(s.bytes).ok
                  THEN [kind |-> "Ok", value |-> Some(PubkeyTryFrom(s.bytes).key),
                        verifiable |-> TRUE]
                  ELSE FieldErr
    ELSE [kind |-> "Ok", value |-> None, verifiable |-> TRUE]

PublicKeyField(d, o) ==
    IF o.public_key_instruction_index = U16_MAX
    THEN LET s == SliceRange(d, o.public_key_offset,
                             o.public_key_offset + PUBKEY_SERIALIZED_SIZE)
         IN  IF ~s.ok THEN FieldPanic
             ELSE IF PubkeyTryFrom(s.bytes).ok
                  THEN [kind |-> "Ok", value |-> Some(PubkeyTryFrom(s.bytes).key),
                        verifiable |-> TRUE]
                  ELSE FieldErr
    ELSE [kind |-> "Ok", value |-> None, verifiable |-> FALSE]

SignatureField(d, o) ==
    IF o.signature_instruction_index = U16_MAX
    THEN LET s == SliceRange(d, o.signature_offset,
                             o.signature_offset + SIGNATURE_SERIALIZED_SIZE)
         IN  IF ~s.ok THEN FieldPanic
             ELSE [kind |-> "Ok", value |-> Some(s.bytes), verifiable |-> TRUE]
    ELSE [kind |-> "Ok", value |-> None, verifiable |-> FALSE]

MessageField(d, o) ==
    IF o.message_instruction_index = U16_MAX
    THEN LET s == SliceRange(d, o.message_data_offset,
                             o.message_data_offset + o.message_data_size)
         IN  IF ~s.ok THEN FieldPanic
             ELSE [kind |-> "Ok", value |-> Some(s.bytes), verifiable |-> TRUE]
    ELSE [kind |-> "Ok", value |-> None, verifiable |-> FALSE]

NoSignature ==
    [is_verifiable |-> FALSE, offsets |-> NoOffsets,
     public_key |-> None, signature |-> None, message |-> None]

\* The closure of the map over 0..num_signatures, for index i.
UnpackSignature(d, i) ==
    LET start == i * SIGNATURE_OFFSETS_SERIALIZED_SIZE + SIGNATURE_OFFSETS_START
        end   == start + SIGNATURE_OFFSETS_SERIALIZED_SIZE
        rec   == SliceRange(d, start, end)
        u     == Ed25519InstructionOffsets_unpack(rec.bytes)
        pk    == PublicKeyField(d, u.offsets)
        sg    == SignatureField(d, u.offsets)
        ms    == MessageField(d, u.offsets)
        fail(k) == [kind |-> k, entry |-> NoSignature]
    IN  IF ~rec.ok THEN fail("Panic")
        ELSE IF u.kind # "Ok" THEN fail("Err")
        ELSE IF pk.kind # "Ok" THEN fail(pk.kind)
        ELSE IF sg.kind # "Ok" THEN fail(sg.kind)
        ELSE IF ms.kind # "Ok" THEN fail(ms.kind)
        ELSE [kind |-> "Ok",
              entry |-> [is_verifiable |-> pk.verifiable /\ sg.verifiable /\ ms.verifiable,
                         offsets |-> u.offsets,
                         public_key |-> pk.value,
                         signature |-> sg.value,
                         message |-> ms.value]]

UnpackOk(sigs) == [kind |-> "Ok", err |-> "", sigs |-> sigs]
UnpackErr == [kind |-> "Err", err |-> "InvalidInstructionData", sigs |-> <<>>]
UnpackPanic == [kind |-> "Panic", err |-> "", sigs |-> <<>>]

\* .map(..).collect::<Result<Vec<_>>>(): entries in order, stopping at the first
\* one that does not come back Ok.
RECURSIVE CollectSignatures(_, _, _, _)
CollectSignatures(d, i, n, acc) ==
    IF i = n THEN UnpackOk(acc)
    ELSE LET r == UnpackSignature(d, i)
         IN  IF r.kind = "Panic" THEN UnpackPanic
             ELSE IF r.kind = "Err" THEN UnpackErr
             ELSE CollectSignatures(d, i + 1, n, Append(acc, r.entry))

\* A mutant of the size computation: the two header bytes are not counted.
ExpectedDataSize_noHeader(num_signatures) ==
    num_signatures * SIGNATURE_OFFSETS_SERIALIZED_SIZE

\* saturating_mul / saturating_add on usize: num_signatures <= 255, so neither
\* saturates.
ExpectedDataSize(num_signatures) ==
    num_signatures * SIGNATURE_OFFSETS_SERIALIZED_SIZE + SIGNATURE_OFFSETS_START

Ed25519InstructionSignatures_unpack(d) ==
    IF Len(d) < SIGNATURE_OFFSETS_START THEN UnpackErr
    ELSE LET num_signatures == d[1]
         IN  IF num_signatures = 0 /\ Len(d) > SIGNATURE_OFFSETS_START THEN UnpackErr
             ELSE IF Len(d) < ExpectedDataSize(num_signatures) THEN UnpackErr
             ELSE CollectSignatures(d, 0, num_signatures, <<>>)

(***************************************************************************)
(* Fixed-width unsigned integers as little-endian limb sequences.          *)
(* u64 = 4 limbs and u128 = 8 limbs in base 65536; a digest half is 16     *)
(* limbs in base 256.                                                      *)
(***************************************************************************)
LimbBase == 256 * 256

U64(n) == <<n % 65536, (n \div 65536) % 65536, 0, 0>>
U64_MAX == <<65535, 65535, 65535, 65535>>
U128_MAX == <<65535, 65535, 65535, 65535, 65535, 65535, 65535, 65535>>
U128_ZERO == <<0, 0, 0, 0, 0, 0, 0, 0>>

\* `x as u128` for a u64 x, and `n as u128` for a small n.
U64AsU128(x) == x \o <<0, 0, 0, 0>>
U128(n) == U64AsU128(U64(n))
\* `x as u64` for a u128 x: the low 64 bits, the rest dropped.
U128AsU64(x) == SubSeq(x, 1, 4)

IsZero(x) == \A i \in 1..Len(x) : x[i] = 0

\* x < y for two limb sequences of the same length.
RECURSIVE LimbsLess(_, _)
LimbsLess(x, y) ==
    IF Len(x) = 0 THEN FALSE
    ELSE LET n == Len(x)
         IN  IF x[n] # y[n] THEN x[n] < y[n]
             ELSE LimbsLess(SubSeq(x, 1, n - 1), SubSeq(y, 1, n - 1))

\* x + y limb by limb; [limbs, carry].
RECURSIVE AddLimbs(_, _, _, _)
AddLimbs(x, y, base, carry) ==
    IF Len(x) = 0 THEN [limbs |-> <<>>, carry |-> carry]
    ELSE LET t    == x[1] + y[1] + carry
             rest == AddLimbs(Tail(x), Tail(y), base, t \div base)
         IN  [limbs |-> <<t % base>> \o rest.limbs, carry |-> rest.carry]

\* x - y limb by limb; [limbs, borrow].
RECURSIVE SubLimbs(_, _, _, _)
SubLimbs(x, y, base, borrow) ==
    IF Len(x) = 0 THEN [limbs |-> <<>>, borrow |-> borrow]
    ELSE LET t    == x[1] - y[1] - borrow
             rest == SubLimbs(Tail(x), Tail(y), base, IF t < 0 THEN 1 ELSE 0)
         IN  [limbs |-> <<IF t < 0 THEN t + base ELSE t>> \o rest.limbs,
              borrow |-> rest.borrow]

\* x * m for a multiplier m below the base; [limbs, carry].
RECURSIVE MulLimbs(_, _, _, _)
MulLimbs(x, m, base, carry) ==
    IF Len(x) = 0 THEN [limbs |-> <<>>, carry |-> carry]
    ELSE LET t    == x[1] * m + carry
             rest == MulLimbs(Tail(x), m, base, t \div base)
         IN  [limbs |-> <<t % base>> \o rest.limbs, carry |-> rest.carry]

\* x / d and x % d for a divisor 0 < d < 2^15, most significant limb first.
RECURSIVE DivLimbs(_, _, _)
DivLimbs(x, d, base) ==
    IF Len(x) = 0 THEN [limbs |-> <<>>, rem |-> 0]
    ELSE LET n    == Len(x)
             high == DivLimbs(SubSeq(x, 2, n), d, base)
             cur  == high.rem * base + x[1]
         IN  [limbs |-> <<cur \div d>> \o high.limbs, rem |-> cur % d]

\* u128::checked_mul by a multiplier that fits one limb.
CheckedMul(x, m) ==
    LET r == MulLimbs(x, m, LimbBase, 0)
    IN  IF r.carry # 0 THEN None ELSE Some(r.limbs)

\* u128::checked_div.  The divisors resolve_bet can form are roll - 1 for a u8
\* roll (one limb) and, when 0 - 1 wraps, u128::MAX; for a divisor of more than
\* one limb the quotient is given for x <= d, which covers u128::MAX.
CheckedDiv(x, d) ==
    IF IsZero(d) THEN None
    ELSE IF IsZero(Tail(d)) /\ d[1] < 32768
         THEN Some(DivLimbs(x, d[1], LimbBase).limbs)
         ELSE IF x = d THEN Some(U128(1)) ELSE Some(U128_ZERO)

LimbsToLeBytes(x) == 
    [i \in 1..(2 * Len(x)) |->
        IF i % 2 = 1 THEN x[(i + 1) \div 2] % 256 ELSE x[i \div 2] \div 256]

(***************************************************************************)
(* Accounts and the Bet record.                                            *)
(***************************************************************************)
House == "house"
Players == {"alice", "bob"}
Accounts == Players \cup {House}
\* The 32 bytes of an account's key.
KeyBytes(k) ==
    [i \in 1..32 |-> CASE k = "house" -> 9 [] k = "alice" -> 1 [] k = "bob" -> 2 [] OTHER -> 0]

NoBet == [slot |-> 0, player |-> "", seed |-> 0, roll |-> 0, amount |-> <<>>, bump |-> 0]

\* Bet::to_slice: slot, player, seed, roll, amount, bump, integers little-endian.
Bet_to_slice(bet) ==
    LimbsToLeBytes(U64(bet.slot)) \o KeyBytes(bet.player)
      \o LimbsToLeBytes(U128(bet.seed)) \o <<bet.roll>>
      \o LimbsToLeBytes(bet.amount) \o <<bet.bump>>

(***************************************************************************)
(* ResolveBet::resolve_bet                                                 *)
(***************************************************************************)
HOUSE_EDGE == 150

\* hash(sig): SHA-256 is not computed.  The sample signatures are
\* <<k, w, 0, ..., 0>>; this stand-in maps them to digests whose halves are
\* (k, 0) for w = 0 and (2^128 - 1, k + 1) for w = 1, so that the sums cover
\* every roll with and without wrapping.
Hash(sig) ==
    [i \in 1..32 |->
        IF sig[2] = 0
        THEN (IF i = 1 THEN sig[1] ELSE 0)
        ELSE (IF i <= 16 THEN 255 ELSE IF i = 17 THEN sig[1] + 1 ELSE 0)]

\* lower.wrapping_add(upper).wrapping_rem(100) as u8 + 1
DeriveRoll(digest) ==
    LET lower == SubSeq(digest, 1, 16)
        upper == SubSeq(digest, 17, 32)
        sum   == AddLimbs(lower, upper, 256, 0).limbs
    IN  DivLimbs(sum, 100, 256).rem + 1

\* The branch condition of resolve_bet.
BetWins(bet, roll) == bet.roll < roll

ResolveOut(res, paid, amount) == [res |-> res, paid |-> paid, amount |-> amount]

\* self.bet.roll as u128 - 1: below zero the subtraction panics under overflow
\* checks and wraps to u128::MAX without them.
PayoutDivisor(bet, checks) ==
    IF bet.roll >= 1 THEN Some(U128(bet.roll - 1))
    ELSE IF checks THEN None ELSE Some(U128_MAX)

resolve_bet(bet, sig, checks) ==
    LET roll == DeriveRoll(Hash(sig))
    IN  IF ~BetWins(bet, roll) THEN ResolveOut("Ok", FALSE, U64(0))
        ELSE LET m   == CheckedMul(U64AsU128(bet.amount), 10000 - HOUSE_EDGE)
                 dv  == PayoutDivisor(bet, checks)
             IN  IF m = None THEN ResolveOut("Overflow", FALSE, U64(0))
                 ELSE IF dv = None THEN ResolveOut("Panic", FALSE, U64(0))
                 ELSE LET q1 == CheckedDiv(m[1], dv[1])
                      IN  IF q1 = None THEN ResolveOut("Overflow", FALSE, U64(0))
                          ELSE LET q2 == CheckedDiv(q1[1], U128(100))
                               IN  IF q2 = None
                                   THEN ResolveOut("Overflow", FALSE, U64(0))
                                   ELSE ResolveOut("Ok", TRUE, U128AsU64(q2[1]))

(***************************************************************************)
(* RefundBet::refund_bet                                                   *)
(***************************************************************************)
TIMEOUT_SLOTS == 1000

\* require!((self.bet.slot - slot) > 1000, TimeoutNotReached), then the
\* transfer of bet.amount.  The u64 subtraction panics below zero under overflow
\* checks and wraps without them.
refund_bet(bet, now, checks) ==
    LET d == SubLimbs(U64(bet.slot), U64(now), LimbBase, 0)
    IN  IF d.borrow # 0 /\ checks THEN ResolveOut("Panic", FALSE, U64(0))
        ELSE IF ~LimbsLess(U64(TIMEOUT_SLOTS), d.limbs)
             THEN ResolveOut("TimeoutNotReached", FALSE, U64(0))
             ELSE ResolveOut("Ok", TRUE, bet.amount)

(***************************************************************************)
(* ResolveBet::verify_ed25519_signature                                    *)
(***************************************************************************)
ED25519_PROGRAM_ID == "Ed25519SigVerify111111111111111111111111111"

\* A mutant of the verifier: the signer's key is not compared with the house key.
verify_ed25519_signature_anySigner(ins, houseKey, sig, bet) ==
    IF ins.program_id # ED25519_PROGRAM_ID THEN "Ed25519Program"
    ELSE IF ins.accounts # 0 THEN "Ed25519Accounts"
    ELSE LET u == Ed25519InstructionSignatures_unpack(ins.data)
         IN  IF u.kind = "Panic" THEN "Panic"
             ELSE IF u.kind = "Err" THEN u.err
             ELSE IF Len(u.sigs) # 1 THEN "Ed25519DataLength"
             ELSE LET signature == u.sigs[1]
                  IN  IF ~signature.is_verifiable THEN "Ed25519Header"
                      ELSE IF signature.public_key = None THEN "Ed25519Pubkey"
                      ELSE IF signature.signature = None THEN "Ed25519Signature"
                      ELSE IF signature.signature[1] # sig THEN "Ed25519Signature"
                      ELSE IF signature.message = None THEN "Ed25519Signature"
                      ELSE IF signature.message[1] # Bet_to_slice(bet)
                           THEN "Ed25519Signature"
                      ELSE "Ok"

\* ins is the instruction load_instruction_at_checked(0, ..) returns: its program
\* id, the number of its accounts, its data.
verify_ed25519_signature(ins, houseKey, sig, bet) ==
    IF ins.program_id # ED25519_PROGRAM_ID THEN "Ed25519Program"
    ELSE IF ins.accounts # 0 THEN "Ed25519Accounts"
    ELSE LET u == Ed25519InstructionSignatures_unpack(ins.data)
         IN  IF u.kind = "Panic" THEN "Panic"
             ELSE IF u.kind = "Err" THEN u.err
             ELSE IF Len(u.sigs) # 1 THEN "Ed25519DataLength"
             ELSE LET signature == u.sigs[1]
                  IN  IF ~signature.is_verifiable THEN "Ed25519Header"
                      ELSE IF signature.public_key = None THEN "Ed25519Pubkey"
                      ELSE IF signature.public_key[1] # houseKey THEN "Ed25519Pubkey"
                      ELSE IF signature.signature = None THEN "Ed25519Signature"
                      ELSE IF signature.signature[1] # sig THEN "Ed25519Signature"
                      ELSE IF signature.message = None THEN "Ed25519Signature"
                      ELSE IF signature.message[1] # Bet_to_slice(bet)
                           THEN "Ed25519Signature"
                      ELSE "Ok"

(***************************************************************************)
(* SpecPayout: resolve_bet applied to a Bet and a signature.               *)
(***************************************************************************)
\* 0.1 SOL, about 187.3 million SOL and u64::MAX lamports.
PayoutAmounts == {U64(100000000), <<0, 0, 0, 666>>, U64_MAX}
\* Every roll place_bet can store but 0, for which roll - 1 depends on the build.
PayoutRolls == 1..97 \cup {255}
SampleSigs == {[i \in 1..64 |-> IF i = 1 THEN k ELSE IF i = 2 THEN w ELSE 0] :
                  k \in 0..99, w \in {0, 1}}

IdleBets == <<>>
IdleLast == <<>>
IdleOut == ResolveOut("none", FALSE, <<>>)
IdleParsed == [kind |-> "none", err |-> "", sigs |-> <<>>]

ProgramIdle ==
    /\ slot = 0 /\ ticks = 0 /\ bets = IdleBets /\ settled = IdleBets /\ last = IdleLast
PayoutIdle == pBet = NoBet /\ pSig = <<>> /\ pOut = IdleOut
CodecIdle == offs = NoOffsets /\ packed = <<>> /\ unpacked = [kind |-> "none"]
ParseIdle == data = <<>> /\ parsed = IdleParsed
VerifyIdle == ix = [program_id |-> "", accounts |-> 0] /\ verified = "none"

InitPayout ==
    /\ overflowChecks \in BOOLEAN
    /\ pBet \in [slot : {0}, player : {"alice"}, seed : {7}, roll : PayoutRolls,
                 amount : PayoutAmounts, bump : {255}]
    /\ pSig \in SampleSigs
    /\ pOut = IdleOut
    /\ ProgramIdle /\ CodecIdle /\ ParseIdle /\ VerifyIdle

PayoutResolve ==
    /\ pOut = IdleOut
    /\ pOut' = resolve_bet(pBet, pSig, overflowChecks)
    /\ UNCHANGED <<overflowChecks, slot, ticks, bets, settled, last, pBet, pSig,
                   offs, packed, unpacked, data, parsed, ix, verified>>

NextPayout == PayoutResolve
SpecPayout == InitPayout /\ [][NextPayout]_vars

\* bet_amount * (10000 - 150) / (target_roll - 1) / 100 in exact integer
\* arithmetic, for target_roll >= 2, as 8 limbs.
ExactPayout(amount, roll) ==
    LET product == MulLimbs(U64AsU128(amount), 9850, LimbBase, 0).limbs
        perRoll == DivLimbs(product, roll - 1, LimbBase).limbs
    IN  DivLimbs(perRoll, 100, LimbBase).limbs

FitsU64(x) == \A i \in 5..8 : x[i] = 0

\* C1 (as claimed): for a target roll in 2..96, resolve_bet transfers a payout
\* exactly when the roll derived from the signature is strictly below the
\* target roll.
C1_PayoutIffRollBelowTarget ==
    (pOut # IdleOut /\ pBet.roll \in 2..96)
        => (pOut.paid <=> DeriveRoll(Hash(pSig)) < pBet.roll)

\* C4 (as claimed): when resolve_bet takes the winning branch, it transfers
\* exactly amount * 9850 / (roll - 1) / 100; when that value is undefined
\* (roll - 1 = 0) or does not fit 64 bits it fails with Overflow and transfers
\* nothing.
C4_PayoutExactOrOverflow ==
    (pOut # IdleOut /\ BetWins(pBet, DeriveRoll(Hash(pSig))))
        => IF pBet.roll >= 2 /\ FitsU64(ExactPayout(pBet.amount, pBet.roll))
           THEN /\ pOut.res = "Ok" /\ pOut.paid
                /\ U64AsU128(pOut.amount) = ExactPayout(pBet.amount, pBet.roll)
           ELSE pOut.res = "Overflow" /\ ~pOut.paid

(***************************************************************************)
(* SpecCodec: Ed25519InstructionOffsets pack and unpack.                   *)
(***************************************************************************)
IdleUnpacked == [kind |-> "none", err |-> "", offsets |-> NoOffsets]
OffsetSamples == {0, 48, 4660}
IndexSamples == {0, U16_MAX}
OffsetsSamples ==
    [ signature_offset : OffsetSamples, signature_instruction_index : IndexSamples,
      public_key_offset : OffsetSamples, public_key_instruction_index : IndexSamples,
      message_data_offset : OffsetSamples, message_data_size : OffsetSamples,
      message_instruction_index : IndexSamples ]

InitCodec ==
    /\ offs \in OffsetsSamples
    /\ packed = <<>>
    /\ unpacked = IdleUnpacked
    /\ overflowChecks = TRUE
    /\ ProgramIdle /\ PayoutIdle /\ ParseIdle /\ VerifyIdle

CodecPack ==
    /\ packed = <<>> /\ unpacked = IdleUnpacked
    /\ packed' = Ed25519InstructionOffsets_pack(offs)
    /\ UNCHANGED <<overflowChecks, slot, ticks, bets, settled, last, pBet, pSig, pOut,
                   offs, unpacked, data, parsed, ix, verified>>

\* A caller hands unpack one byte less than pack produced.
CodecTruncate ==
    /\ Len(packed) = 14 /\ unpacked = IdleUnpacked
    /\ packed' = SubSeq(packed, 1, 13)
    /\ UNCHANGED <<overflowChecks, slot, ticks, bets, settled, last, pBet, pSig, pOut,
                   offs, unpacked, data, parsed, ix, verified>>

CodecUnpack ==
    /\ packed # <<>> /\ unpacked = IdleUnpacked
    /\ unpacked' = Ed25519InstructionOffsets_unpack(packed)
    /\ UNCHANGED <<overflowChecks, slot, ticks, bets, settled, last, pBet, pSig, pOut,
                   offs, packed, data, parsed, ix, verified>>

NextCodec == CodecPack \/ CodecTruncate \/ CodecUnpack
SpecCodec == InitCodec /\ [][NextCodec]_vars

AllSentinel(o) ==
    /\ o.signature_instruction_index = 65535
    /\ o.public_key_instruction_index = 65535
    /\ o.message_instruction_index = 65535

\* C8 (as claimed): for every offsets value x, sentinel indices or not,
\* unpack(pack(x)) succeeds and returns the seven fields of x.
C8_RoundTripAnyOffsets ==
    (unpacked # IdleUnpacked /\ Len(packed) = 14)
        => (unpacked.kind = "Ok" /\ unpacked.offsets = offs)

\* C8 (amended): unpack(pack(x)) succeeds and returns the four offset and size
\* fields of x with the three instruction-index fields set to 0xFFFF; so it
\* returns x itself when the three instruction-index fields of x are 0xFFFF.
C8_RoundTripSentinelOffsets ==
    (unpacked # IdleUnpacked /\ Len(packed) = 14)
        => /\ unpacked.kind = "Ok"
           /\ unpacked.offsets =
                [offs EXCEPT !.signature_instruction_index = 65535,
                             !.public_key_instruction_index = 65535,
                             !.message_instruction_index = 65535]
           /\ (AllSentinel(offs) => unpacked.offsets = offs)

C8_Witness ==
    /\ unpacked.kind = "Ok" /\ AllSentinel(offs) /\ unpacked.offsets = offs
    /\ offs.signature_offset = 48 /\ offs.public_key_offset = 4660
    /\ offs.message_data_offset = 0 /\ offs.message_data_size = 4660

(***************************************************************************)
(* SpecParse: Ed25519InstructionSignatures::unpack on untrusted buffers.   *)
(***************************************************************************)
SampleSig == [i \in 1..64 |-> IF i = 1 THEN 49 ELSE 0]
SampleBet ==
    [slot |-> 1, player |-> "alice", seed |-> 7, roll |-> 50,
     amount |-> U64(10000000), bump |-> 255]

\* The instruction data the signer's client builds around one offsets record:
\* 16 header bytes, then the public key, the signature and the message.
CanonicalBody(key, sig, msg) == [i \in 1..16 |-> 0] \o key \o sig \o msg

\* All seven fields of an offsets record, little-endian, as an arbitrary
\* producer may write them.
RawOffsets(o) ==
    U16ToLeBytes(o.signature_offset) \o U16ToLeBytes(o.signature_instruction_index)
      \o U16ToLeBytes(o.public_key_offset) \o U16ToLeBytes(o.public_key_instruction_index)
      \o U16ToLeBytes(o.message_data_offset) \o U16ToLeBytes(o.message_data_size)
      \o U16ToLeBytes(o.message_instruction_index)

RECURSIVE RawHeader(_)
RawHeader(entries) ==
    IF entries = <<>> THEN <<>>
    ELSE RawOffsets(Head(entries)) \o RawHeader(Tail(entries))

\* count byte, padding byte, the records; past them the body's bytes; cut or
\* zero-extended to len bytes.
BuildData(count, entries, body, len) ==
    LET header == <<count, 0>> \o RawHeader(entries)
    IN  [i \in 1..len |-> IF i <= Len(header) THEN header[i]
                         ELSE IF i <= Len(body) THEN body[i] ELSE 0]

\* Where a record's fields point: the canonical layout, the first bytes of the
\* buffer, or far past any buffer.
Layouts ==
    { Ed25519InstructionOffsets_new(66),
      [Ed25519InstructionOffsets_new(14) EXCEPT
          !.signature_offset = 0, !.public_key_offset = 0, !.message_data_offset = 2],
      [Ed25519InstructionOffsets_new(65535) EXCEPT
          !.signature_offset = 65000, !.public_key_offset = 65000,
          !.message_data_offset = 65000] }

EntryKinds ==
    { [l EXCEPT !.signature_instruction_index = si,
                !.public_key_instruction_index = pi,
                !.message_instruction_index = mi] :
        l \in Layouts, si \in IndexSamples, pi \in IndexSamples, mi \in IndexSamples }

DataLens ==
    {0, 1, 3, 111, 112, 177, 178}
      \cup {2 + 14 * c : c \in 0..MaxCount} \cup {1 + 14 * c : c \in 1..MaxCount}

SampleBody == CanonicalBody(KeyBytes(House), SampleSig, Bet_to_slice(SampleBet))

InitParse ==
    /\ \E c \in 0..MaxCount : \E e \in [1..c -> EntryKinds] : \E n \in DataLens :
          data = BuildData(c, e, SampleBody, n)
    /\ parsed = IdleParsed
    /\ overflowChecks = TRUE
    /\ ProgramIdle /\ PayoutIdle /\ CodecIdle /\ VerifyIdle

ParseUnpack ==
    /\ parsed = IdleParsed
    /\ parsed' = Ed25519InstructionSignatures_unpack(data)
    /\ UNCHANGED <<overflowChecks, slot, ticks, bets, settled, last, pBet, pSig, pOut,
                   offs, packed, unpacked, data, ix, verified>>

NextParse == ParseUnpack
SpecParse == InitParse /\ [][NextParse]_vars

\* The k-th little-endian u16 (k = 0..6) of record i (from 0) of the buffer.
RecordField(d, i, k) == d[2 + 14 * i + 2 * k + 1] + 256 * d[2 + 14 * i + 2 * k + 2]
SigOff(d, i)  == RecordField(d, i, 0)
SigIdx(d, i)  == RecordField(d, i, 1)
PkOff(d, i)   == RecordField(d, i, 2)
PkIdx(d, i)   == RecordField(d, i, 3)
MsgOff(d, i)  == RecordField(d, i, 4)
MsgSize(d, i) == RecordField(d, i, 5)
MsgIdx(d, i)  == RecordField(d, i, 6)

PassesLengthRule(d) ==
    /\ Len(d) >= 2
    /\ ~(d[1] = 0 /\ Len(d) > 2)
    /\ Len(d) >= 2 + 14 * d[1]

\* Record i has a sentinel-indexed field whose byte range runs past the buffer.
FieldOutOfBounds(d, i) ==
    \/ PkIdx(d, i) = 65535 /\ PkOff(d, i) + 32 > Len(d)
    \/ SigIdx(d, i) = 65535 /\ SigOff(d, i) + 64 > Len(d)
    \/ MsgIdx(d, i) = 65535 /\ MsgOff(d, i) + MsgSize(d, i) > Len(d)

AnyFieldOutOfBounds(d) == \E i \in 0..(d[1] - 1) : FieldOutOfBounds(d, i)

\* C7 (as claimed): a buffer with a sentinel-indexed public key, signature or
\* message whose offset plus length runs past its end makes unpack return
\* InvalidInstructionData, and nothing else.
C7_OutOfBoundsIsDataFormatError ==
    (parsed # IdleParsed /\ PassesLengthRule(data) /\ AnyFieldOutOfBounds(data))
        => (parsed.kind = "Err" /\ parsed.err = "InvalidInstructionData")

DecodedRecord(d, i) ==
    [ signature_offset |-> SigOff(d, i), signature_instruction_index |-> SigIdx(d, i),
      public_key_offset |-> PkOff(d, i), public_key_instruction_index |-> PkIdx(d, i),
      message_data_offset |-> MsgOff(d, i), message_data_size |-> MsgSize(d, i),
      message_instruction_index |-> MsgIdx(d, i) ]

IsDataFormatError(r) == r.kind = "Err" /\ r.err = "InvalidInstructionData"

YieldsRecords(r, d) ==
    /\ r.kind = "Ok"
    /\ Len(r.sigs) = d[1]
    /\ \A i \in 0..(d[1] - 1) : r.sigs[i + 1].offsets = DecodedRecord(d, i)

LengthRuleFailures(r, d) ==
    /\ Len(d) < 2 => IsDataFormatError(r)
    /\ (Len(d) = 2 /\ d[1] = 0) => (r.kind = "Ok" /\ r.sigs = <<>>)
    /\ (Len(d) > 2 /\ d[1] = 0) => IsDataFormatError(r)
    /\ (Len(d) >= 2 /\ d[1] >= 1 /\ Len(d) < 2 + 14 * d[1]) => IsDataFormatError(r)

\* C9 (as claimed): the length rule, and every buffer of length exactly
\* 2 + 14 * N with count N >= 1 succeeds with the N records in order.
C9_LengthRuleExactSucceeds ==
    parsed # IdleParsed
        => /\ LengthRuleFailures(parsed, data)
           /\ (Len(data) >= 2 /\ data[1] >= 1 /\ Len(data) = 2 + 14 * data[1])
                 => YieldsRecords(parsed, data)

\* C9 (amended): the length rule; a buffer of length exactly 2 + 14 * N with
\* count N >= 1 succeeds with the N records in order provided no
\* sentinel-indexed field of a record runs past the end of the buffer.
C9_LengthRule ==
    parsed # IdleParsed
        => /\ LengthRuleFailures(parsed, data)
           /\ (Len(data) >= 2 /\ data[1] >= 1 /\ Len(data) = 2 + 14 * data[1]
                 /\ ~AnyFieldOutOfBounds(data))
                 => YieldsRecords(parsed, data)

C9_Witness ==
    /\ parsed.kind = "Ok" /\ data[1] = 2 /\ Len(data) = 30 /\ Len(parsed.sigs) = 2
    /\ parsed.sigs[2].message = Some(SubSeq(data, 3, 16))

\* C10: in every bundle unpack returns there is one entry per counted record,
\* and for each entry: is_verifiable iff the three instruction indices are the
\* sentinel iff the three fields are present; a field is present iff its own
\* index is the sentinel, and then holds the bytes of the buffer at its offset
\* and length.
C10_EntryFlags ==
    parsed.kind = "Ok"
        => /\ Len(parsed.sigs) = data[1]
           /\ \A i \in 0..(data[1] - 1) :
                LET e == parsed.sigs[i + 1]
                    allSentinel == /\ PkIdx(data, i) = 65535 /\ SigIdx(data, i) = 65535
                                   /\ MsgIdx(data, i) = 65535
                IN  /\ e.is_verifiable <=> allSentinel
                    /\ e.is_verifiable <=>
                         (e.public_key # None /\ e.signature # None /\ e.message # None)
                    /\ e.public_key # None <=> PkIdx(data, i) = 65535
                    /\ e.signature # None <=> SigIdx(data, i) = 65535
                    /\ e.message # None <=> MsgIdx(data, i) = 65535
                    /\ e.public_key # None =>
                         e.public_key[1] = SubSeq(data, PkOff(data, i) + 1, PkOff(data, i) + 32)
                    /\ e.signature # None =>
                         e.signature[1] = SubSeq(data, SigOff(data, i) + 1, SigOff(data, i) + 64)
                    /\ e.message # None =>
                         e.message[1] = SubSeq(data, MsgOff(data, i) + 1,
                                               MsgOff(data, i) + MsgSize(data, i))

C10_Witness ==
    /\ parsed.kind = "Ok" /\ Len(parsed.sigs) = 2
    /\ ~parsed.sigs[1].is_verifiable /\ parsed.sigs[1].public_key = None
    /\ parsed.sigs[1].signature = Some(SampleSig)
    /\ parsed.sigs[2].is_verifiable
    /\ parsed.sigs[2].message = Some(Bet_to_slice(SampleBet))

(***************************************************************************)
(* SpecVerify: verify_ed25519_signature on instruction 0 of a transaction. *)
(***************************************************************************)
OtherSig == [i \in 1..64 |-> IF i = 1 THEN 50 ELSE 0]
OtherBet == [SampleBet EXCEPT !.roll = 96]
CanonicalKinds == {k \in EntryKinds : k.signature_offset = 48}

InitVerify ==
    /\ ix \in [program_id : {ED25519_PROGRAM_ID, "11111111111111111111111111111111"},
               accounts : {0, 1}]
    /\ \E c \in 0..MaxCount : \E first \in CanonicalKinds :
         \E key \in {KeyBytes(House), KeyBytes("alice")} :
           \E sig \in {SampleSig, OtherSig} : \E bet \in {SampleBet, OtherBet} :
             \E n \in {2, 177, 178} :
               data = BuildData(c, [i \in 1..c |-> IF i = 1 THEN first
                                                  ELSE Ed25519InstructionOffsets_new(66)],
                                CanonicalBody(key, sig, Bet_to_slice(bet)), n)
    /\ verified = "none"
    /\ parsed = IdleParsed
    /\ overflowChecks = TRUE
    /\ ProgramIdle /\ PayoutIdle /\ CodecIdle

VerifyStep ==
    /\ verified = "none"
    /\ verified' = verify_ed25519_signature(
                      [program_id |-> ix.program_id, accounts |-> ix.accounts, data |-> data],
                      KeyBytes(House), SampleSig, SampleBet)
    /\ UNCHANGED <<overflowChecks, slot, ticks, bets, settled, last, pBet, pSig, pOut,
                   offs, packed, unpacked, data, parsed, ix>>

NextVerify == VerifyStep
SpecVerify == InitVerify /\ [][NextVerify]_vars

VerificationErrors ==
    {"Ed25519Program", "Ed25519Accounts", "Ed25519DataLength", "Ed25519Header",
     "Ed25519Pubkey", "Ed25519Signature"}

\* What the verifier requires of instruction 0, stated on the parsed bundle.
VerifyConditions ==
    LET u == Ed25519InstructionSignatures_unpack(data)
    IN  /\ ix.program_id = ED25519_PROGRAM_ID
        /\ ix.accounts = 0
        /\ u.kind = "Ok" /\ Len(u.sigs) = 1
        /\ u.sigs[1].is_verifiable
        /\ u.sigs[1].public_key = Some(KeyBytes(House))
        /\ u.sigs[1].signature = Some(SampleSig)
        /\ u.sigs[1].message = Some(Bet_to_slice(SampleBet))

Seeds == {7, 8}
MIN_BET == 10000000
PlaceRolls == {1, 50, 97}
PlaceAmounts == {U64(MIN_BET - 1), U64(MIN_BET)}
ResolveSigs == {[i \in 1..64 |-> IF i = 1 THEN k ELSE 0] : k \in {0, 99}}
\* The bump find_program_address yields for a seed.
BetBump(seed) == 255 - (seed % 2)

SettleOps == {"resolve_bet", "refund_bet"}

NoLast ==
    [op |-> "none", seed |-> 0, res |-> "", to |-> "", paid |-> FALSE, amount |-> <<>>]

Failed(op, seed, res) == [NoLast EXCEPT !.op = op, !.seed = seed, !.res = res]

Init ==
    /\ overflowChecks \in BOOLEAN
    /\ slot = 0
    /\ ticks = 0
    /\ bets = [s \in Seeds |-> NoBet]
    /\ settled = [s \in Seeds |-> 0]
    /\ last = NoLast
    /\ PayoutIdle /\ CodecIdle /\ ParseIdle /\ VerifyIdle

UnchangedOthers ==
    UNCHANGED <<overflowChecks, pBet, pSig, pOut, offs, packed, unpacked, data, parsed,
                ix, verified>>

\* The host clock advances.
Tick ==
    /\ ticks < MaxTicks
    /\ \E d \in {1, TIMEOUT_SLOTS} : slot' = slot + d
    /\ ticks' = ticks + 1
    /\ UNCHANGED <<bets, settled, last>>
    /\ UnchangedOthers

\* The instruction's argument checks.
PlaceBetChecks(roll, amount) ==
    IF roll < 2 THEN "MinimumRoll"
    ELSE IF roll > 96 THEN "MaximumRoll"
    ELSE IF LimbsLess(amount, U64(MIN_BET)) THEN "MinimumBet"
    ELSE "Ok"

create_bet(now, player, seed, roll, amount) ==
    [slot |-> now, player |-> player, seed |-> seed, roll |-> roll, amount |-> amount,
     bump |-> BetBump(seed)]

\* place_bet: `init` of the bet account, create_bet, deposit.
PlaceBet ==
    /\ \E seed \in Seeds :
         IF bets[seed] # NoBet
         THEN /\ last' = Failed("place_bet", seed, "AccountAlreadyInUse")
              /\ UNCHANGED <<bets, settled>>
         ELSE \E roll \in PlaceRolls, amount \in PlaceAmounts :
                IF PlaceBetChecks(roll, amount) # "Ok"
                THEN /\ last' = Failed("place_bet", seed, PlaceBetChecks(roll, amount))
                     /\ UNCHANGED <<bets, settled>>
                ELSE \E player \in Players :
                       /\ bets' = [bets EXCEPT
                                     ![seed] = create_bet(slot, player, seed, roll, amount)]
                       /\ settled' = [settled EXCEPT ![seed] = 0]
                       /\ last' = [NoLast EXCEPT
                                     !.op = "place_bet", !.seed = seed, !.res = "Ok",
                                     !.to = "vault", !.paid = TRUE, !.amount = amount]
    /\ UNCHANGED <<slot, ticks>>
    /\ UnchangedOthers

\* A mutant of `close = player`: the bet account is left in place.
CloseBet_leavesOpen(bs, seed) == bs

\* `close = player` on the bet account.
CloseBet(bs, seed) == [bs EXCEPT ![seed] = NoBet]

\* Instruction 0 of the resolving transaction, as the house's client builds it
\* and as it may be built otherwise.
ResolveInstructions(bet, sig) ==
    { [program_id |-> ED25519_PROGRAM_ID, accounts |-> 0,
       data |-> BuildData(1, <<Ed25519InstructionOffsets_new(66)>>,
                          CanonicalBody(KeyBytes(House), sig, Bet_to_slice(bet)), 178)],
      [program_id |-> ED25519_PROGRAM_ID, accounts |-> 0,
       data |-> BuildData(1, <<Ed25519InstructionOffsets_new(66)>>,
                          CanonicalBody(KeyBytes("alice"), sig, Bet_to_slice(bet)), 178)],
      [program_id |-> "11111111111111111111111111111111", accounts |-> 0,
       data |-> <<>>] }

\* resolve_bet: account constraints, verify_ed25519_signature, resolve_bet,
\* close of the bet account to the `player` account passed in.
ResolveBet ==
    /\ \E seed \in Seeds :
         IF bets[seed] = NoBet
         THEN /\ last' = Failed("resolve_bet", seed, "AccountNotInitialized")
              /\ UNCHANGED <<bets, settled>>
         ELSE \E signer \in Accounts :
           IF signer # House
           THEN /\ last' = Failed("resolve_bet", seed, "ConstraintSeeds")
                /\ UNCHANGED <<bets, settled>>
           ELSE \E sig \in ResolveSigs : \E ins \in ResolveInstructions(bets[seed], sig) :
             LET bet == bets[seed]
                 v   == verify_ed25519_signature(ins, KeyBytes(House), sig, bet)
                 r   == resolve_bet(bet, sig, overflowChecks)
                 rec == [NoLast EXCEPT !.op = "resolve_bet", !.seed = seed]
             IN  IF v # "Ok"
                 THEN /\ last' = [rec EXCEPT !.res = v]
                      /\ UNCHANGED <<bets, settled>>
                 ELSE IF r.res # "Ok"
                 THEN /\ last' = [rec EXCEPT !.res = r.res]
                      /\ UNCHANGED <<bets, settled>>
                 ELSE \E player \in Players :
                        /\ bets' = CloseBet(bets, seed)
                        /\ settled' = [settled EXCEPT ![seed] = @ + 1]
                        /\ last' = [rec EXCEPT !.res = "Ok", !.to = player,
                                               !.paid = r.paid, !.amount = r.amount]
    /\ UNCHANGED <<slot, ticks>>
    /\ UnchangedOthers

\* refund_bet: account constraints, refund_bet, close of the bet account to the
\* signing `player`.
RefundBet ==
    /\ \E seed \in Seeds :
         IF bets[seed] = NoBet
         THEN /\ last' = Failed("refund_bet", seed, "AccountNotInitialized")
              /\ UNCHANGED <<bets, settled>>
         ELSE LET bet == bets[seed]
                  r   == refund_bet(bet, slot, overflowChecks)
                  rec == [NoLast EXCEPT !.op = "refund_bet", !.seed = seed]
              IN  IF r.res # "Ok"
                  THEN /\ last' = [rec EXCEPT !.res = r.res]
                       /\ UNCHANGED <<bets, settled>>
                  ELSE \E signer \in Accounts :
                         /\ bets' = CloseBet(bets, seed)
                         /\ settled' = [settled EXCEPT ![seed] = @ + 1]
                         /\ last' = [rec EXCEPT !.res = "Ok", !.to = signer,
                                                !.paid = r.paid, !.amount = r.amount]
    /\ UNCHANGED <<slot, ticks>>
    /\ UnchangedOthers

Next == Tick \/ PlaceBet \/ ResolveBet \/ RefundBet
Spec == Init /\ [][Next]_vars

\* C2 (as claimed): in every step that executes refund_bet on an existing bet,
\* with c the bet's commit slot and s the current slot: if s - c < 1000 the
\* instruction fails with TimeoutNotReached and transfers nothing; if
\* s - c > 1000 it succeeds, transfers exactly bet.amount and destroys the bet.
C2_RefundGatedByTimeout ==
    [][(last'.op = "refund_bet" /\ last' # last /\ bets[last'.seed] # NoBet)
         => LET bet == bets[last'.seed]
            IN  /\ (slot - bet.slot < 1000)
                      => (last'.res = "TimeoutNotReached" /\ ~last'.paid /\ bets' = bets)
                /\ (slot - bet.slot > 1000)
                      => /\ last'.res = "Ok" /\ last'.paid /\ last'.amount = bet.amount
                         /\ bets'[last'.seed] = NoBet
      ]_vars

\* C3 (as claimed): in every step in which resolve_bet or refund_bet succeeds,
\* the account that receives the transfer and the closed bet account's lamports
\* is the player stored in the Bet.
C3_ReleasedOnlyToBetPlayer ==
    [][(last'.op \in SettleOps /\ last'.res = "Ok" /\ last' # last
          /\ bets[last'.seed] # NoBet)
         => last'.to = bets[last'.seed].player
      ]_vars

\* C5: in every step, for every seed: a Bet account that exists either stays
\* exactly as it is or is destroyed, and it is destroyed only by a successful
\* resolve_bet or refund_bet on that seed; a settlement is counted only in a
\* step that destroys an existing Bet, and it is the first for that Bet; a
\* resolve_bet or refund_bet on a seed with no Bet account fails and transfers
\* nothing.
C5_SettledExactlyOnce ==
    [][\A s \in Seeds :
         /\ (bets[s] # NoBet /\ bets'[s] # bets[s])
               => /\ bets'[s] = NoBet
                  /\ last'.op \in SettleOps /\ last'.seed = s /\ last'.res = "Ok"
                  /\ settled'[s] = 1
         /\ (settled'[s] # settled[s] /\ settled'[s] # 0)
               => (bets[s] # NoBet /\ bets'[s] = NoBet /\ settled'[s] = 1)
         /\ (bets[s] = NoBet /\ last'.op \in SettleOps /\ last'.seed = s /\ last' # last)
               => (last'.res = "AccountNotInitialized" /\ ~last'.paid
                     /\ bets'[s] = NoBet /\ settled'[s] = settled[s])
         /\ (last'.op \in SettleOps /\ last'.seed = s /\ last'.res = "Ok" /\ last' # last)
               => (bets[s] # NoBet /\ bets'[s] = NoBet)
      ]_vars

\* A bet was placed and settled, and a further refund of it was refused.
C5_Witness ==
    \E s \in Seeds :
        /\ settled[s] = 1 /\ bets[s] = NoBet
        /\ last.op = "refund_bet" /\ last.seed = s /\ last.res = "AccountNotInitialized"

=============================================================================
